---- MODULE Spec2Model ----
(***************************************************************************)
(* EarlyAllocator (arceos/modules/bump_allocator/src/lib.rs): a double-    *)
(* ended bump allocator over one region.  Bytes are allocated forward from *)
(* b_pos, pages backward from p_pos.  Addresses are usize values; the      *)
(* model keeps them WordBits wide so that the unchecked additions,         *)
(* subtractions, multiplications and shifts of the source overflow as they *)
(* do in the program: with overflow checks compiled in (debug profile) the *)
(* operation panics, without them (release profile) it wraps.              *)
(***************************************************************************)
EXTENDS Integers, FiniteSets, Sequences, TLC

VARIABLES start, end, b_pos, p_pos, count,  \* the fields of EarlyAllocator
          overflow_checks,                  \* build profile: TRUE panics on overflow, FALSE wraps
          pc,                               \* "new" | "ready" | "panicked"
          last,                             \* the last call: operation, result, returned address,
                                            \* and count as it was before the call
          owed,                             \* number of byte allocations handed out and not yet freed
          watched,                          \* one of them, arbitrarily chosen when it was handed out
          usage                             \* the calls since init: "alloc" (no dealloc yet), "free"
                                            \* (deallocs of live allocations, no alloc call after
                                            \* them), "mixed", "stray" (some dealloc freed nothing live)

vars == <<start, end, b_pos, p_pos, count, overflow_checks, pc, last,
          owed, watched, usage>>

fields == <<start, end, b_pos, p_pos, count>>

----------------------------------------------------------------------------
(* Bounds of the model *)

WordBits == 4          \* width of usize in the model
MaxCount == 3          \* alloc is not called once count has reached this
MaxAlignLog == 2       \* Layout alignments are 2^0 .. 2^MaxAlignLog
MaxPages == 3          \* alloc_pages is called with 0 .. MaxPages pages

PAGE_SIZE == 4         \* the const generic SIZE

Word == 2 ^ WordBits
ISIZE_MAX == 2 ^ (WordBits - 1) - 1

----------------------------------------------------------------------------
(* usize arithmetic.  Each operation yields the wrapped value and whether  *)
(* it overflowed.                                                          *)

Add(a, b) == [ovf |-> a + b >= Word, val |-> (a + b) % Word]
Sub(a, b) == [ovf |-> a < b, val |-> (a - b + Word) % Word]
Mul(a, b) == [ovf |-> a * b >= Word, val |-> (a * b) % Word]
Shl(a, k) == [ovf |-> k >= WordBits, val |-> (a * 2 ^ (k % WordBits)) % Word]
BitNot(a) == Word - 1 - a

RECURSIVE BitAndN(_, _, _)
BitAndN(a, b, n) ==
    IF n = 0 THEN 0
    ELSE (IF a % 2 = 1 /\ b % 2 = 1 THEN 1 ELSE 0)
         + 2 * BitAndN(a \div 2, b \div 2, n - 1)

BitAnd(a, b) == BitAndN(a, b, WordBits)

(* core::alloc::Layout: align is a power of two and size, rounded up to    *)
(* align, does not exceed isize::MAX.                                       *)
Sizes == {0, 1, PAGE_SIZE, ISIZE_MAX - 1}
Aligns == {2 ^ k : k \in 0 .. MaxAlignLog}
Layouts == {l \in [size : Sizes, align : Aligns] :
              ((l.size + l.align - 1) \div l.align) * l.align <= ISIZE_MAX}

(* The regions handed to init: <<start, size>> with start + size a usize.  *)
Regions == { <<0, 2 * PAGE_SIZE>>,
             <<PAGE_SIZE, PAGE_SIZE>>,
             <<PAGE_SIZE, PAGE_SIZE + PAGE_SIZE \div 2>>,
             <<Word - ISIZE_MAX + 1, ISIZE_MAX - 2>> }

(* The arguments of alloc_pages: a page count whose byte size is not a     *)
(* usize is among them, and an align_pow2 that is not a shift of a usize.  *)
PageCounts == 0 .. MaxPages \cup {Word \div PAGE_SIZE}
AlignPow2s == 0 .. MaxAlignLog + 1 \cup {WordBits}

----------------------------------------------------------------------------
(* Bookkeeping of calls *)

NoWatch == [addr |-> 0, size |-> 0]

NoCall == [op |-> "none", res |-> "none", addr |-> 0, was |-> 0]

Call(op, res, addr) == [op |-> op, res |-> res, addr |-> addr, was |-> count]

Panic(call) ==
    /\ pc' = "panicked"
    /\ last' = call
    /\ UNCHANGED <<start, end, b_pos, p_pos, count, overflow_checks,
                   owed, watched, usage>>

----------------------------------------------------------------------------
(* EarlyAllocator::new *)
Init ==
    /\ start = 0
    /\ end = 0
    /\ b_pos = 0
    /\ p_pos = 0
    /\ count = 0
    /\ overflow_checks \in BOOLEAN
    /\ pc = "new"
    /\ last = NoCall
    /\ owed = 0
    /\ watched = NoWatch
    /\ usage = "alloc"

(* init as it would be if it left the byte cursor where it was *)
init_keeps_b_pos(s, size) ==
    /\ pc # "panicked"
    /\ start' = s
    /\ end' = s + size
    /\ b_pos' = b_pos
    /\ p_pos' = s + size
    /\ count' = 0
    /\ pc' = "ready"
    /\ last' = Call("init", "unit", 0)
    /\ owed' = 0
    /\ watched' = NoWatch
    /\ usage' = "alloc"
    /\ UNCHANGED overflow_checks

(* BaseAllocator::init *)
init(s, size) ==
    /\ pc # "panicked"
    /\ start' = s
    /\ end' = s + size
    /\ b_pos' = s
    /\ p_pos' = s + size
    /\ count' = 0
    /\ pc' = "ready"
    /\ last' = Call("init", "unit", 0)
    /\ owed' = 0
    /\ watched' = NoWatch
    /\ usage' = "alloc"
    /\ UNCHANGED overflow_checks

(* BaseAllocator::add_memory: todo!() *)
add_memory(s, size) ==
    /\ pc # "panicked"
    /\ Panic(Call("add_memory", "panic", 0))

(* ByteAllocator::alloc.  watch: the caller of the model keeps an eye on   *)
(* the allocation this call returns, if it watches none yet.               *)
alloc(layout, watch) ==
    LET align == layout.align
        size == layout.size
        t1 == Add(b_pos, align)
        t2 == Sub(t1.val, 1)
        m1 == Sub(align, 1)
        aligned_pos == BitAnd(t2.val, BitNot(m1.val))
        t3 == Add(aligned_pos, size)
        new_b_pos == t3.val
        ovf == t1.ovf \/ t2.ovf \/ m1.ovf \/ t3.ovf
        call(res, addr) == Call("alloc", res, addr)
    IN  /\ pc # "panicked"
        /\ count < MaxCount
        /\ owed < MaxCount
        /\ IF ovf /\ overflow_checks
           THEN Panic(call("panic", 0))
           ELSE /\ usage' = IF usage = "free" THEN "mixed" ELSE usage
                /\ UNCHANGED <<start, end, p_pos, overflow_checks, pc>>
                /\ IF new_b_pos > p_pos
                   THEN /\ last' = call("NoMemory", 0)
                        /\ UNCHANGED <<b_pos, count, owed, watched>>
                   ELSE /\ b_pos' = new_b_pos
                        /\ count' = count + 1
                        /\ IF aligned_pos = 0
                           THEN /\ last' = call("NoMemory", 0)
                                /\ UNCHANGED <<owed, watched>>
                           ELSE /\ last' = call("Ok", aligned_pos)
                                /\ owed' = owed + 1
                                /\ watched' =
                                     IF watch /\ watched = NoWatch
                                     THEN [addr |-> aligned_pos, size |-> size]
                                     ELSE watched

(* ByteAllocator::dealloc.  pos and layout are not read by the code.  The  *)
(* caller frees the watched allocation, another live allocation, or        *)
(* something that is not a live allocation ("stray").                      *)
Frees == {"watched", "other", "stray"}

(* dealloc as it would be if the last free gave the page area back too *)
dealloc_reclaims_pages(which) ==
    /\ pc # "panicked"
    /\ which = "watched" => watched # NoWatch
    /\ which = "other" => owed > (IF watched = NoWatch THEN 0 ELSE 1)
    /\ last' = Call("dealloc", "unit", 0)
    /\ owed' = IF which = "stray" THEN owed ELSE owed - 1
    /\ watched' = IF which = "watched" THEN NoWatch ELSE watched
    /\ usage' = IF which = "stray" \/ usage = "stray" THEN "stray"
                ELSE IF usage = "alloc" THEN "free" ELSE usage
    /\ IF count > 0
       THEN /\ count' = count - 1
            /\ b_pos' = IF count - 1 = 0 THEN start ELSE b_pos
            /\ p_pos' = IF count - 1 = 0 THEN end ELSE p_pos
       ELSE UNCHANGED <<count, b_pos, p_pos>>
    /\ UNCHANGED <<start, end, overflow_checks, pc>>

(* dealloc as it would be if the last free did not reset the byte cursor *)
dealloc_no_reset(which) ==
    /\ pc # "panicked"
    /\ which = "watched" => watched # NoWatch
    /\ which = "other" => owed > (IF watched = NoWatch THEN 0 ELSE 1)
    /\ last' = Call("dealloc", "unit", 0)
    /\ owed' = IF which = "stray" THEN owed ELSE owed - 1
    /\ watched' = IF which = "watched" THEN NoWatch ELSE watched
    /\ usage' = IF which = "stray" \/ usage = "stray" THEN "stray"
                ELSE IF usage = "alloc" THEN "free" ELSE usage
    /\ count' = IF count > 0 THEN count - 1 ELSE count
    /\ UNCHANGED <<start, end, b_pos, p_pos, overflow_checks, pc>>

(* dealloc as it would be without the count > 0 guard *)
dealloc_unguarded(which) ==
    /\ pc # "panicked"
    /\ which = "watched" => watched # NoWatch
    /\ which = "other" => owed > (IF watched = NoWatch THEN 0 ELSE 1)
    /\ last' = Call("dealloc", "unit", 0)
    /\ owed' = IF which = "stray" THEN owed ELSE owed - 1
    /\ watched' = IF which = "watched" THEN NoWatch ELSE watched
    /\ usage' = IF which = "stray" \/ usage = "stray" THEN "stray"
                ELSE IF usage = "alloc" THEN "free" ELSE usage
    /\ count' = Sub(count, 1).val
    /\ b_pos' = IF Sub(count, 1).val = 0 THEN start ELSE b_pos
    /\ UNCHANGED <<start, end, p_pos, overflow_checks, pc>>

dealloc(which) ==
    /\ pc # "panicked"
    /\ which = "watched" => watched # NoWatch
    /\ which = "other" => owed > (IF watched = NoWatch THEN 0 ELSE 1)
    /\ last' = Call("dealloc", "unit", 0)
    /\ owed' = IF which = "stray" THEN owed ELSE owed - 1
    /\ watched' = IF which = "watched" THEN NoWatch ELSE watched
    /\ usage' = IF which = "stray" \/ usage = "stray" THEN "stray"
                ELSE IF usage = "alloc" THEN "free" ELSE usage
    /\ IF count > 0
       THEN /\ count' = count - 1
            /\ b_pos' = IF count - 1 = 0 THEN start ELSE b_pos
       ELSE UNCHANGED <<count, b_pos>>
    /\ UNCHANGED <<start, end, p_pos, overflow_checks, pc>>

(* PageAllocator::alloc_pages *)
alloc_pages(num_pages, align_pow2) ==
    LET t0 == Shl(1, align_pow2)
        align == t0.val
        t1 == Mul(num_pages, PAGE_SIZE)
        size == t1.val
        t2 == Sub(p_pos, size)
        m1 == Sub(align, 1)
        aligned_pos == BitAnd(t2.val, BitNot(m1.val))
        ovf == t0.ovf \/ t1.ovf \/ t2.ovf \/ m1.ovf
        call(res, addr) == Call("alloc_pages", res, addr)
    IN  /\ pc # "panicked"
        /\ IF ovf /\ overflow_checks
           THEN Panic(call("panic", 0))
           ELSE /\ UNCHANGED <<start, end, b_pos, count, overflow_checks, pc,
                               owed, watched, usage>>
                /\ IF aligned_pos < b_pos
                   THEN /\ last' = call("NoMemory", 0)
                        /\ UNCHANGED p_pos
                   ELSE /\ p_pos' = aligned_pos
                        /\ last' = call("Ok", aligned_pos)

(* PageAllocator::dealloc_pages: todo!() *)
dealloc_pages(pos, num_pages) ==
    /\ pc # "panicked"
    /\ Panic(Call("dealloc_pages", "panic", 0))

(* The accounting queries, as unchecked usize arithmetic *)
total_bytes == Sub(end, start)
used_bytes ==
    LET a == Sub(b_pos, start)
        b == Sub(end, p_pos)
        c == Add(a.val, b.val)
    IN  [ovf |-> a.ovf \/ b.ovf \/ c.ovf, val |-> c.val]
available_bytes == Sub(p_pos, b_pos)
total_pages == [ovf |-> total_bytes.ovf, val |-> total_bytes.val \div PAGE_SIZE]
used_pages == [ovf |-> Sub(end, p_pos).ovf, val |-> Sub(end, p_pos).val \div PAGE_SIZE]
available_pages == [ovf |-> available_bytes.ovf, val |-> available_bytes.val \div PAGE_SIZE]

(* Any sequence of calls on one allocator, until one of them panics.  No   *)
(* allocation is watched.                                                  *)
Next ==
    \/ \E r \in Regions : init(r[1], r[2])
    \/ \E r \in Regions : add_memory(r[1], r[2])
    \/ \E l \in Layouts : alloc(l, FALSE)
    \/ \E f \in {"other", "stray"} : dealloc(f)
    \/ \E n \in PageCounts, k \in AlignPow2s : alloc_pages(n, k)
    \/ \E n \in PageCounts : dealloc_pages(p_pos, n)

Spec == Init /\ [][Next]_vars

(* The callers that free only allocations that are still live, each once,  *)
(* and ask for pages with align_pow2 = 0; one of their byte allocations is *)
(* watched.                                                                *)
NextWatch ==
    \/ \E r \in Regions : init(r[1], r[2])
    \/ \E l \in Layouts, w \in BOOLEAN : alloc(l, w)
    \/ \E f \in {"watched", "other"} : dealloc(f)
    \/ \E n \in 0 .. MaxPages : alloc_pages(n, 0)

SpecWatch == Init /\ [][NextWatch]_vars

----------------------------------------------------------------------------
(* The arithmetic of the specification, over the unbounded integers *)

RoundUp(x, a) == ((x + a - 1) \div a) * a
RoundDown(x, a) == (x \div a) * a

(* [a, a + s) and [b, b + t) have an address in common *)
Overlap(a, s, b, t) == s > 0 /\ t > 0 /\ a < b + t /\ b < a + s

Ready == pc = "ready"

----------------------------------------------------------------------------
(* C1: in every state reachable after init by alloc, dealloc and           *)
(* alloc_pages calls, start <= b_pos <= p_pos <= end.                      *)
C1_CursorsOrdered ==
    Ready => (start <= b_pos /\ b_pos <= p_pos /\ p_pos <= end)

(* C2: of the successful alloc calls after init, with no dealloc in        *)
(* between, each returns a multiple of the alignment asked for, and the    *)
(* spans [addr, addr + size) of two of them do not overlap.                *)
C2_AllocsAlignedDisjoint ==
    [][\A l \in Layouts, w \in BOOLEAN :
         (Ready /\ usage = "alloc" /\ alloc(l, w) /\ last'.res = "Ok")
         => /\ last'.addr % l.align = 0
            /\ watched # NoWatch
               => ~Overlap(last'.addr, l.size, watched.addr, watched.size)]_vars

(* C3: alloc(layout) returns the out-of-memory error exactly when          *)
(* roundUp(b_pos, align) + size > p_pos, and an alloc that returns an      *)
(* error leaves start, end, b_pos, p_pos and count as they were.           *)
C3_AllocErrorExact ==
    [][\A l \in Layouts :
         (Ready /\ alloc(l, FALSE))
         => /\ last'.res = "NoMemory"
               <=> RoundUp(b_pos, l.align) + l.size > p_pos
            /\ last'.res = "NoMemory" => fields' = fields]_vars

(* C4: when every dealloc frees a distinct allocation that is still live,  *)
(* each successful alloc returns a non-null address whose span overlaps    *)
(* neither a live byte allocation nor the page area [p_pos, end).          *)
C4_AllocDisjointFromLive ==
    [][\A l \in Layouts, w \in BOOLEAN :
         (Ready /\ usage # "stray" /\ alloc(l, w) /\ last'.res = "Ok")
         => /\ last'.addr # 0
            /\ watched # NoWatch
               => ~Overlap(last'.addr, l.size, watched.addr, watched.size)
            /\ ~Overlap(last'.addr, l.size, p_pos, end - p_pos)]_vars

(* C5: after n >= 1 successful allocs followed by n deallocs, with any     *)
(* alloc_pages calls in between, count = 0, b_pos = start and              *)
(* available_bytes() = p_pos - start.                                      *)
C5_BulkReclaim ==
    (Ready /\ last.op = "dealloc" /\ usage = "free" /\ owed = 0)
    => /\ count = 0
       /\ b_pos = start
       /\ available_bytes = [ovf |-> FALSE, val |-> p_pos - start]

(* C6: a dealloc that leaves count > 0 changes neither b_pos nor           *)
(* available_bytes(), and b_pos does not decrease for as long as count     *)
(* stays above zero.                                                       *)
C6_NoIncrementalReclaim ==
    [][(Ready /\ pc' = "ready" /\ count > 0 /\ count' > 0)
       => /\ b_pos' >= b_pos
          /\ last'.op = "dealloc"
             => (b_pos' = b_pos /\ available_bytes' = available_bytes)]_vars

(* C7: a successful alloc_pages(num_pages, align_pow2) returns a multiple  *)
(* of 2^align_pow2 whose page range lies inside [b_pos, p_pos) as they     *)
(* were before the call.                                                   *)
C7_PagesInsideGap ==
    [][\A n \in PageCounts, k \in AlignPow2s :
         (Ready /\ alloc_pages(n, k) /\ last'.res = "Ok")
         => /\ last'.addr % (2 ^ k) = 0
            /\ b_pos <= last'.addr
            /\ last'.addr + n * PAGE_SIZE <= p_pos]_vars

(* C8: every address a successful alloc_pages returns is a multiple of     *)
(* PAGE_SIZE, for any region given to init and any align_pow2.             *)
C8_PagesPageAligned ==
    (Ready /\ last.op = "alloc_pages" /\ last.res = "Ok")
    => last.addr % PAGE_SIZE = 0

(* C9: alloc_pages(num_pages, align_pow2) returns the out-of-memory error  *)
(* exactly when roundDown(p_pos - num_pages * PAGE_SIZE, 2^align_pow2) is  *)
(* below b_pos, and leaves the state unchanged on that error.              *)
C9_PagesErrorExact ==
    [][\A n \in PageCounts, k \in AlignPow2s :
         (Ready /\ alloc_pages(n, k))
         => /\ last'.res = "NoMemory"
               <=> RoundDown(p_pos - n * PAGE_SIZE, 2 ^ k) < b_pos
            /\ last'.res = "NoMemory" => fields' = fields]_vars

(* C10: when num_pages * PAGE_SIZE is greater than p_pos, alloc_pages      *)
(* returns the out-of-memory error, leaves the state unchanged and does    *)
(* not set p_pos above end.                                                *)
C10_PagesNoUnderflow ==
    [][\A n \in PageCounts, k \in AlignPow2s :
         (Ready /\ n * PAGE_SIZE > p_pos /\ alloc_pages(n, k))
         => /\ last'.res = "NoMemory"
            /\ fields' = fields
            /\ p_pos' <= end]_vars

(* C11: add_memory and dealloc_pages return a 'not supported' error to the *)
(* caller and leave the allocator state unchanged; they never panic.       *)
C11_UnsupportedIsAnError ==
    last.op \in {"add_memory", "dealloc_pages"}
    => (last.res = "Unsupported" /\ pc # "panicked")

(* C12: immediately after init(start, size), whatever the state before:    *)
(* b_pos = start, p_pos = start + size, count = 0, total_bytes() = size,   *)
(* used_bytes() = 0 and available_bytes() = size.                          *)
C12_InitResets ==
    [][\A r \in Regions :
         init(r[1], r[2])
         => /\ b_pos' = r[1] /\ p_pos' = r[1] + r[2] /\ count' = 0
            /\ start' = r[1]
            /\ total_bytes' = [ovf |-> FALSE, val |-> r[2]]
            /\ used_bytes' = [ovf |-> FALSE, val |-> 0]
            /\ available_bytes' = [ovf |-> FALSE, val |-> r[2]]]_vars

(* a second init, on an allocator with byte allocations outstanding *)
C12_Witness ==
    /\ pc = "ready" /\ last.op = "init" /\ last.was > 0
    /\ b_pos = start /\ p_pos = end /\ count = 0

(* C13: dealloc called when count = 0 leaves count at 0 and start, end,    *)
(* b_pos and p_pos unchanged.                                              *)
C13_DeallocAtZeroIsNoop ==
    [][(last'.op = "dealloc" /\ count = 0)
       => (count' = 0 /\ fields' = fields)]_vars

(* a dealloc was issued with nothing outstanding *)
C13_Witness ==
    pc = "ready" /\ last.op = "dealloc" /\ last.was = 0 /\ count = 0

(* C14: in every state where b_pos = p_pos, every alloc call and every     *)
(* alloc_pages call fails with the out-of-memory error, for all sizes,     *)
(* page counts and alignments.                                             *)
C14_ExhaustedFails ==
    [][(Ready /\ b_pos = p_pos /\ last'.op \in {"alloc", "alloc_pages"})
       => last'.res = "NoMemory"]_vars

(* C15: while no dealloc has freed anything that was not live, count is    *)
(* the number of successful allocs minus the number of deallocs, and an    *)
(* alloc that returns an error does not change count.                      *)
C15_CountIsOutstanding ==
    /\ (Ready /\ usage # "stray") => count = owed
    /\ (Ready /\ last.op = "alloc" /\ last.res = "NoMemory") => count = last.was

(* C16: after init, alloc and dealloc never change start, end or p_pos,    *)
(* and alloc_pages never changes start, end, b_pos or count.               *)
C16_FrameEffects ==
    [][Ready
       => /\ last'.op \in {"alloc", "dealloc"}
             => (start' = start /\ end' = end /\ p_pos' = p_pos)
          /\ last'.op = "alloc_pages"
             => (start' = start /\ end' = end /\ b_pos' = b_pos
                 /\ count' = count)]_vars

(* the last byte allocation was freed after pages had been handed out *)
C16_Witness ==
    /\ pc = "ready" /\ last.op = "dealloc" /\ last.was = 1 /\ count = 0
    /\ p_pos < end /\ b_pos = start

(* C17: across alloc, dealloc and alloc_pages calls after one init, p_pos  *)
(* never increases and used_pages() never decreases.                       *)
C17_PagesNeverReclaimed ==
    [][(Ready /\ last'.op \in {"alloc", "dealloc", "alloc_pages"})
       => /\ p_pos' <= p_pos
          /\ used_pages'.val >= used_pages.val]_vars

(* C18: in every state reachable after init, used_bytes() +                *)
(* available_bytes() = total_bytes() and none of the three underflows.     *)
C18_AccountingAddsUp ==
    Ready
    => /\ ~total_bytes.ovf /\ ~used_bytes.ovf /\ ~available_bytes.ovf
       /\ used_bytes.val + available_bytes.val = total_bytes.val

(* C19: in every reachable state, the freshly constructed one included,    *)
(* count = 0 implies b_pos = start.                                        *)
C19_ZeroCountAtStart ==
    count = 0 => b_pos = start

(* the last outstanding allocation was freed, away from a moved cursor *)
C19_Witness ==
    /\ pc = "ready" /\ last.op = "dealloc" /\ last.was = 1 /\ count = 0
    /\ owed = 0 /\ usage = "free" /\ start > 0

====
